---- MODULE Spec2Model ----
(***************************************************************************)
(* Supply Chain Strategy Simulator (strategy_game.py).                     *)
(*                                                                         *)
(* The session state kept in st.session_state, the round resolver          *)
(* simulate_round, the decision form (with its number_input bounds), the   *)
(* game-over screen and its "Play Again?" button.  The four random draws   *)
(* of a round (yield tier, disruption, damage, demand) are inputs of the   *)
(* round.                                                                  *)
(***************************************************************************)
EXTENDS Integers, Sequences, FiniteSets, TLC

VARIABLES round, cash, inventory, satisfaction, total_costs_accumulated,
          game_over, game_over_message, history, round_events,
          final_score, request, played

\* st.session_state as written by initialize_game and simulate_round
gameState == <<round, cash, inventory, satisfaction, total_costs_accumulated,
               game_over, game_over_message, history, round_events>>

vars == <<round, cash, inventory, satisfaction, total_costs_accumulated,
          game_over, game_over_message, history, round_events,
          final_score, request, played>>

----------------------------------------------------------------------------
\* Game configuration

MAX_ROUNDS == 12
INITIAL_CASH == 50000
INITIAL_INVENTORY == 100
INITIAL_SATISFACTION == 80
HOLDING_COST_PER_UNIT == 2
STOCKOUT_PENALTY_PER_UNIT == 30
SELLING_PRICE_PER_UNIT == 50
DEMAND_MIN == 80
DEMAND_MAX == 220
LOW_SATISFACTION_THRESHOLD == 30
BANKRUPTCY_THRESHOLD == 0
ORDER_MIN == 0
ORDER_MAX == 1000

Alpha == "Alpha Goods (Reliable & Pricey)"
Beta == "Beta Stock (Standard)"
Gamma == "Gamma Source (Cheap & Risky)"

Express == "Express Freight (Fast & Secure)"
Standard == "Standard Shipping (Balanced)"
Budget == "Budget Haul (Slow & Risky)"

\* yield_percentages are kept in percent (1.0 -> 100, 0.7 -> 70, ...)
SUPPLIERS ==
    (Alpha :> [cost |-> 20, yield_percentages |-> <<100>>]) @@
    (Beta  :> [cost |-> 15, yield_percentages |-> <<100, 70>>]) @@
    (Gamma :> [cost |-> 10, yield_percentages |-> <<100, 50, 20>>])

\* damage_percentage is kept in percent (0.05 -> 5, ...)
TRANSPORTERS ==
    (Express  :> [cost |-> 8, disruption_fee |-> 200, damage_percentage |-> 5]) @@
    (Standard :> [cost |-> 5, disruption_fee |-> 150, damage_percentage |-> 10]) @@
    (Budget   :> [cost |-> 3, disruption_fee |-> 100, damage_percentage |-> 15])

get_supplier_details(name) == SUPPLIERS[name]

get_transport_details(name) == TRANSPORTERS[name]

----------------------------------------------------------------------------
\* Arithmetic of simulate_round

Min(a, b) == IF a <= b THEN a ELSE b
Max(a, b) == IF a >= b THEN a ELSE b

\* Order quantities q in 0..1000 for which the double product q * 0.7 lies
\* just below the integer 7q/10, so that int() truncates to one unit less.
\* For 1.0, 0.5 and 0.2, and for the damage fractions 0.05, 0.10 and 0.15,
\* int() of the double product equals the exact floor on all of 0..1000.
FloatShort70 == {90, 170, 180, 330, 340, 350, 360,
                 650, 660, 670, 680, 690, 700, 710, 720, 730}

\* int(quantity_ordered * chosen_yield_percentage)
procured_quantity_of(quantity_ordered, pct) ==
    IF pct = 70 /\ quantity_ordered \in FloatShort70
    THEN ((quantity_ordered * 70) \div 100) - 1
    ELSE (quantity_ordered * pct) \div 100

\* int(actual_received_quantity * transporter["damage_percentage"])
damaged_units_of(quantity, pct) == (quantity * pct) \div 100

\* the cap without its lower bound
CapSatisfaction_NoFloor(s) == Min(100, s)

\* max(0, min(100, satisfaction))
CapSatisfaction(s) == Max(0, Min(100, s))

\* the whole demand sold, whatever is in stock
units_sold_of_Demand(inventory_at_fulfillment, current_demand) == current_demand

\* min(inventory_at_fulfillment, current_demand)
units_sold_of(inventory_at_fulfillment, current_demand) ==
    Min(inventory_at_fulfillment, current_demand)

\* one point of satisfaction lost per unmet unit instead of two
satisfaction_after_UnitPenalty(s, unmet_demand) ==
    IF unmet_demand > 0 THEN s - unmet_demand ELSE s + 5

\* satisfaction after the stockout penalty or the bonus, before the cap
satisfaction_after(s, unmet_demand) ==
    IF unmet_demand > 0 THEN s - unmet_demand * 2 ELSE s + 5

\* the units sold at the stockout penalty instead of the selling price
revenue_of_PenaltyPrice(units_sold) == units_sold * STOCKOUT_PENALTY_PER_UNIT

\* units_sold * SELLING_PRICE_PER_UNIT
revenue_of(units_sold) == units_sold * SELLING_PRICE_PER_UNIT

\* unmet_demand * STOCKOUT_PENALTY_PER_UNIT
stockout_cost_of(unmet_demand) == unmet_demand * STOCKOUT_PENALTY_PER_UNIT

\* the holding cost charged at the stockout rate
holding_cost_of_WrongRate(ending_inventory) ==
    ending_inventory * STOCKOUT_PENALTY_PER_UNIT

\* ending_inventory * HOLDING_COST_PER_UNIT
holding_cost_of(ending_inventory) == ending_inventory * HOLDING_COST_PER_UNIT

\* final_transport_cost: the base cost plus the fee of a disruption
final_transport_cost_of(procured_quantity, transporter, disruption) ==
    IF disruption
    THEN procured_quantity * transporter.cost + transporter.disruption_fee
    ELSE procured_quantity * transporter.cost

\* the total without the holding cost
round_total_cost_of_NoHolding(sourcing_cost, final_transport_cost, stockout_cost, holding_cost) ==
    sourcing_cost + final_transport_cost + stockout_cost

\* sourcing_cost + final_transport_cost + stockout_cost + holding_cost
round_total_cost_of(sourcing_cost, final_transport_cost, stockout_cost, holding_cost) ==
    sourcing_cost + final_transport_cost + stockout_cost + holding_cost

NoMessage == <<>>
BankruptcyMessage == <<"Game Over: Bankruptcy! Your company ran out of cash.">>
ExodusMessage(s) == <<"Game Over: Customer Exodus! Satisfaction dropped to ", s, "%.">>
EndOfTermMessage == <<"Game Over: End of Term! You've completed 12 months.">>

\* the satisfaction threshold left out
GameOverCheck_NoExodus(c, s, r) ==
    IF c <= BANKRUPTCY_THRESHOLD THEN BankruptcyMessage
    ELSE IF r >= MAX_ROUNDS THEN EndOfTermMessage
    ELSE NoMessage

\* the end of term left out
GameOverCheck_NoTerm(c, s, r) ==
    IF c <= BANKRUPTCY_THRESHOLD THEN BankruptcyMessage
    ELSE IF s <= LOW_SATISFACTION_THRESHOLD THEN ExodusMessage(s)
    ELSE NoMessage

\* the end of term tested before the cash and satisfaction thresholds
GameOverCheck_TermFirst(c, s, r) ==
    IF r >= MAX_ROUNDS THEN EndOfTermMessage
    ELSE IF c <= BANKRUPTCY_THRESHOLD THEN BankruptcyMessage
    ELSE IF s <= LOW_SATISFACTION_THRESHOLD THEN ExodusMessage(s)
    ELSE NoMessage

\* the end of term one month late
GameOverCheck_LateTerm(c, s, r) ==
    IF c <= BANKRUPTCY_THRESHOLD THEN BankruptcyMessage
    ELSE IF s <= LOW_SATISFACTION_THRESHOLD THEN ExodusMessage(s)
    ELSE IF r > MAX_ROUNDS THEN EndOfTermMessage
    ELSE NoMessage

\* 9. Check Game Over Conditions: the message set, NoMessage when none is
GameOverCheck(c, s, r) ==
    IF c <= BANKRUPTCY_THRESHOLD THEN BankruptcyMessage
    ELSE IF s <= LOW_SATISFACTION_THRESHOLD THEN ExodusMessage(s)
    ELSE IF r >= MAX_ROUNDS THEN EndOfTermMessage
    ELSE NoMessage

\* Everything simulate_round computes in one round, from the session state
\* st = [round, cash, inventory, satisfaction, total_costs_accumulated,
\* game_over, game_over_message] and the input i = [supplier, quantity,
\* transport] with the draws [yield (index into yield_percentages),
\* disruption, damage, demand].
RoundOutcome(st, i) ==
    LET supplier == get_supplier_details(i.supplier)
        transporter == get_transport_details(i.transport)
        chosen_yield_percentage == supplier.yield_percentages[i.yield]
        procured_quantity == procured_quantity_of(i.quantity, chosen_yield_percentage)
        sourcing_cost == procured_quantity * supplier.cost
        supplier_event ==
            IF chosen_yield_percentage < 100
            THEN [kind |-> "supplier_shortfall", name |-> i.supplier,
                  percent |-> chosen_yield_percentage,
                  procured |-> procured_quantity, ordered |-> i.quantity]
            ELSE [kind |-> "supplier_full", name |-> i.supplier,
                  procured |-> procured_quantity]
        final_transport_cost ==
            final_transport_cost_of(procured_quantity, transporter, i.disruption)
        disruption_events ==
            IF i.disruption
            THEN <<[kind |-> "transport_disruption", name |-> i.transport,
                    fee |-> transporter.disruption_fee]>>
            ELSE <<>>
        damaged == i.damage /\ procured_quantity > 0
        damaged_units == damaged_units_of(procured_quantity, transporter.damage_percentage)
        actual_received_quantity ==
            IF damaged THEN procured_quantity - damaged_units ELSE procured_quantity
        damage_events ==
            IF damaged
            THEN <<[kind |-> "transport_damage", name |-> i.transport,
                    damaged_units |-> damaged_units,
                    received |-> actual_received_quantity]>>
            ELSE <<>>
        inventory_at_fulfillment == st.inventory + actual_received_quantity
        current_demand == i.demand
        demand_event == [kind |-> "demand", demand |-> current_demand]
        units_sold == units_sold_of(inventory_at_fulfillment, current_demand)
        revenue == revenue_of(units_sold)
        unmet_demand == current_demand - units_sold
        fulfil_event ==
            IF unmet_demand > 0
            THEN [kind |-> "stockout", unmet |-> unmet_demand]
            ELSE [kind |-> "all_demand_met", sold |-> units_sold]
        new_satisfaction ==
            CapSatisfaction(satisfaction_after(st.satisfaction, unmet_demand))
        stockout_cost == stockout_cost_of(unmet_demand)
        ending_inventory == inventory_at_fulfillment - units_sold
        holding_cost == holding_cost_of(ending_inventory)
        round_total_cost ==
            round_total_cost_of(sourcing_cost, final_transport_cost,
                                stockout_cost, holding_cost)
        new_cash == st.cash + (revenue - round_total_cost)
        message == GameOverCheck(new_cash, new_satisfaction, st.round)
        over == st.game_over \/ message # NoMessage
    IN  [round_events |-> <<supplier_event>> \o disruption_events \o damage_events
                             \o <<demand_event, fulfil_event>>,
         available |-> inventory_at_fulfillment,
         cash |-> new_cash,
         inventory |-> ending_inventory,
         satisfaction |-> new_satisfaction,
         total_costs_accumulated |-> st.total_costs_accumulated + round_total_cost,
         entry |-> [Round |-> st.round,
                    Cash |-> new_cash,
                    Inventory |-> ending_inventory,
                    Satisfaction |-> new_satisfaction,
                    Demand |-> current_demand,
                    Procured |-> procured_quantity,
                    Received |-> actual_received_quantity,
                    Sold |-> units_sold,
                    StockoutUnits |-> unmet_demand,
                    SourcingCost |-> sourcing_cost,
                    TransportCost |-> final_transport_cost,
                    HoldingCost |-> holding_cost,
                    StockoutCost |-> stockout_cost,
                    RoundTotalCost |-> round_total_cost,
                    Revenue |-> revenue],
         game_over |-> over,
         game_over_message |->
             IF message # NoMessage THEN message ELSE st.game_over_message,
         round |-> IF over THEN st.round ELSE st.round + 1]

\* the fields of st.session_state that simulate_round reads
SessionState ==
    [round |-> round, cash |-> cash, inventory |-> inventory,
     satisfaction |-> satisfaction,
     total_costs_accumulated |-> total_costs_accumulated,
     game_over |-> game_over, game_over_message |-> game_over_message]

----------------------------------------------------------------------------
\* Operations

\* the values initialize_game() stores
InitialSession ==
    [round |-> 1,
     cash |-> INITIAL_CASH,
     inventory |-> INITIAL_INVENTORY,
     satisfaction |-> INITIAL_SATISFACTION,
     total_costs_accumulated |-> 0,
     game_over |-> FALSE,
     game_over_message |-> NoMessage,
     history |-> <<>>,
     round_events |-> <<>>]

\* a reset that keeps the ledger of the finished game
initialize_game_KeepsHistory ==
    /\ round' = InitialSession.round
    /\ cash' = InitialSession.cash
    /\ inventory' = InitialSession.inventory
    /\ satisfaction' = InitialSession.satisfaction
    /\ total_costs_accumulated' = InitialSession.total_costs_accumulated
    /\ game_over' = InitialSession.game_over
    /\ game_over_message' = InitialSession.game_over_message
    /\ UNCHANGED history
    /\ round_events' = InitialSession.round_events

\* a reset that forgets the accumulated costs
initialize_game_KeepsCosts ==
    /\ round' = InitialSession.round
    /\ cash' = InitialSession.cash
    /\ inventory' = InitialSession.inventory
    /\ satisfaction' = InitialSession.satisfaction
    /\ UNCHANGED total_costs_accumulated
    /\ game_over' = InitialSession.game_over
    /\ game_over_message' = InitialSession.game_over_message
    /\ history' = InitialSession.history
    /\ round_events' = InitialSession.round_events

\* initialize_game()
initialize_game ==
    /\ round' = InitialSession.round
    /\ cash' = InitialSession.cash
    /\ inventory' = InitialSession.inventory
    /\ satisfaction' = InitialSession.satisfaction
    /\ total_costs_accumulated' = InitialSession.total_costs_accumulated
    /\ game_over' = InitialSession.game_over
    /\ game_over_message' = InitialSession.game_over_message
    /\ history' = InitialSession.history
    /\ round_events' = InitialSession.round_events

\* the round counter incremented even by the round that ends the game
simulate_round_AlwaysNextRound(i) ==
    LET o == RoundOutcome(SessionState, i)
    IN  /\ round_events' = o.round_events
        /\ satisfaction' = o.satisfaction
        /\ cash' = o.cash
        /\ inventory' = o.inventory
        /\ total_costs_accumulated' = o.total_costs_accumulated
        /\ history' = Append(history, o.entry)
        /\ game_over' = o.game_over
        /\ game_over_message' = o.game_over_message
        /\ round' = round + 1

\* simulate_round(supplier_name, quantity_ordered, transport_name)
simulate_round(i) ==
    LET o == RoundOutcome(SessionState, i)
    IN  /\ round_events' = o.round_events
        /\ satisfaction' = o.satisfaction
        /\ cash' = o.cash
        /\ inventory' = o.inventory
        /\ total_costs_accumulated' = o.total_costs_accumulated
        /\ history' = Append(history, o.entry)
        /\ game_over' = o.game_over
        /\ game_over_message' = o.game_over_message
        /\ round' = o.round

\* the tenth of the costs taken by integer division
final_score_of_FloorDiv(c, s, t) == 10 * (c + s * 100 - (t \div 10))

\* cash + (satisfaction * 100) - (total_costs_accumulated / 10), a true
\* division: the score is kept in tenths, 10 * cash + 1000 * satisfaction -
\* total_costs_accumulated
final_score_of(c, s, t) == 10 * c + 1000 * s - t

\* The script run that follows every interaction (st.rerun): the game-over
\* screen computes the final score, the screen of a running game has none.
Rerun ==
    final_score' =
        IF game_over'
        THEN <<final_score_of(cash', satisfaction', total_costs_accumulated')>>
        ELSE <<>>

\* the form left on screen after the game has ended
FormOffered_Always == TRUE

\* The decision form is rendered only in the else branch of
\* "if st.session_state.game_over".
FormOffered == ~game_over

\* the number input without its max_value
QuantityAllowed_NoMax(q) == q >= ORDER_MIN

\* number_input(min_value=0, max_value=1000)
QuantityAllowed(q) == q >= ORDER_MIN /\ q <= ORDER_MAX

\* The player tries to submit the decision i.  On the game-over screen
\* there is no form to submit; on the form, the number input refuses a
\* quantity outside its bounds; otherwise the round is resolved.
SubmitDecision(i) ==
    IF ~FormOffered
    THEN /\ UNCHANGED gameState
         /\ Rerun
         /\ UNCHANGED played
         /\ request' = [op |-> "no_form", quantity |-> 0]
    ELSE IF ~QuantityAllowed(i.quantity)
    THEN /\ UNCHANGED gameState
         /\ Rerun
         /\ UNCHANGED played
         /\ request' = [op |-> "refused", quantity |-> i.quantity]
    ELSE /\ simulate_round(i)
         /\ Rerun
         /\ played' = Append(played, i)
         /\ request' = [op |-> "submit", quantity |-> i.quantity]

\* "Play Again?" on the game-over screen
PlayAgain ==
    /\ game_over
    /\ initialize_game
    /\ Rerun
    /\ played' = <<>>
    /\ request' = [op |-> "reset", quantity |-> 0]

\* First run of the script: 'round' not in st.session_state, so
\* initialize_game() runs
Init ==
    /\ round = InitialSession.round
    /\ cash = InitialSession.cash
    /\ inventory = InitialSession.inventory
    /\ satisfaction = InitialSession.satisfaction
    /\ total_costs_accumulated = InitialSession.total_costs_accumulated
    /\ game_over = InitialSession.game_over
    /\ game_over_message = InitialSession.game_over_message
    /\ history = InitialSession.history
    /\ round_events = InitialSession.round_events
    /\ final_score = <<>>
    /\ played = <<>>
    /\ request = [op |-> "start", quantity |-> 0]

----------------------------------------------------------------------------
\* Inputs

Input(s, q, t, y, dis, dam, dem) ==
    [supplier |-> s, quantity |-> q, transport |-> t,
     yield |-> y, disruption |-> dis, damage |-> dam, demand |-> dem]

\* Whole games: a few decisions with their draws, every round
GameInputs ==
    { Input(Alpha, 150, Standard, 1, FALSE, FALSE, 150),
      Input(Gamma, 0, Budget, 3, FALSE, FALSE, 220),
      Input(Alpha, 1000, Express, 1, TRUE, TRUE, 80),
      Input(Beta, ORDER_MIN - 1, Standard, 1, FALSE, FALSE, 150),
      Input(Beta, ORDER_MAX + 1, Standard, 1, FALSE, FALSE, 150) }

Next == (\E i \in GameInputs : SubmitDecision(i)) \/ PlayAgain

Spec == Init /\ [][Next]_vars

\* Whole games in which the page may be reloaded at any moment: the new
\* session has no 'round' in st.session_state and is initialized
NewSession ==
    /\ initialize_game
    /\ Rerun
    /\ played' = <<>>
    /\ request' = [op |-> "new_session", quantity |-> 0]

NextSession ==
    \/ \E i \in GameInputs : SubmitDecision(i)
    \/ PlayAgain
    \/ NewSession

SpecSession == Init /\ [][NextSession]_vars

\* Whole games of a player who keeps submitting decisions the form accepts,
\* between attempts that the number input refuses
LiveInputs ==
    { Input(Gamma, 0, Budget, 3, FALSE, FALSE, 220),
      Input(Alpha, 1000, Express, 1, TRUE, TRUE, 80),
      Input(Beta, ORDER_MAX + 1, Standard, 1, FALSE, FALSE, 150) }

NextLive == (\E i \in LiveInputs : SubmitDecision(i)) \/ PlayAgain

ResolveRound ==
    \E i \in LiveInputs :
        FormOffered /\ QuantityAllowed(i.quantity) /\ SubmitDecision(i)

SpecLive == Init /\ [][NextLive]_vars /\ WF_vars(ResolveRound)

\* Single rounds: every supplier with each of its yield tiers, every
\* transporter, both outcomes of the disruption and damage draws
MaxRichRounds == 1
RoundQuantities == {0, 90, 1000}
RoundDemands == {DEMAND_MIN, 150, DEMAND_MAX}

ValidRoundInputs ==
    UNION { { Input(s, q, t, y, dis, dam, dem) :
                q \in RoundQuantities, t \in DOMAIN TRANSPORTERS,
                y \in 1..Len(SUPPLIERS[s].yield_percentages),
                dis \in BOOLEAN, dam \in BOOLEAN, dem \in RoundDemands } :
            s \in DOMAIN SUPPLIERS }

\* quantities the number input refuses
OutOfRangeInputs ==
    { Input(Beta, q, Standard, 1, FALSE, FALSE, 150) :
        q \in {ORDER_MIN - 1, ORDER_MAX + 1} }

RoundInputs == ValidRoundInputs \cup OutOfRangeInputs

NextRound ==
    \/ /\ game_over \/ Len(played) < MaxRichRounds
       /\ \E i \in RoundInputs : SubmitDecision(i)
    \/ PlayAgain

SpecRound == Init /\ [][NextRound]_vars

----------------------------------------------------------------------------
\* Properties

\* the ledger entry, the input and the pre-round values of the last
\* resolved round
LastEntry == history[Len(history)]
LastInput == played[Len(played)]
RoundResolved == Len(history) > 0 /\ Len(played) = Len(history)
RoundStep == Len(history') = Len(history) + 1

\* C1: in every reachable state satisfaction is an integer in [0,100],
\* however large the stockout penalty or however many bonuses were added.
C1_SatisfactionInRange == satisfaction \in 0..100

\* a stockout whose penalty exceeds the whole scale was capped at 0
C1_Witness ==
    /\ RoundResolved
    /\ LastEntry.StockoutUnits * 2 > 100
    /\ satisfaction = 0

\* C2: for every resolved round, with available = inventory_before +
\* received: sold = min(available, demand), sold <= demand, sold <=
\* available, unmet = demand - sold >= 0, and the new inventory equals
\* inventory_before + received - sold and is >= 0.
C2_Fulfilment ==
    [][RoundStep =>
        LET e == history'[Len(history')]
            available == inventory + e.Received
        IN  /\ e.Sold = Min(available, e.Demand)
            /\ e.Sold <= e.Demand
            /\ e.Sold <= available
            /\ e.StockoutUnits = e.Demand - e.Sold
            /\ e.StockoutUnits >= 0
            /\ inventory' = inventory + e.Received - e.Sold
            /\ e.Inventory = inventory'
            /\ inventory \in Nat
            /\ inventory' \in Nat]_vars

\* a round that sold out (available < demand) after one that left stock
C2_Witness ==
    /\ RoundResolved
    /\ Len(history) >= 2
    /\ history[Len(history) - 1].Inventory > 0
    /\ LastEntry.StockoutUnits > 0
    /\ LastEntry.Sold = history[Len(history) - 1].Inventory + LastEntry.Received
    /\ inventory = 0

\* C3: after each resolved round the reasons are decided in strict
\* precedence: cash <= 0 is bankruptcy even when satisfaction <= 30 or
\* round >= 12 also hold; otherwise satisfaction <= 30 is customer exodus
\* even when round >= 12; otherwise round >= 12 is end of term; and the
\* game is over exactly when one of the three holds on the post-round state.
C3_TerminationPrecedence ==
    RoundResolved =>
        LET r == LastEntry.Round
            bankrupt == cash <= BANKRUPTCY_THRESHOLD
            exodus == satisfaction <= LOW_SATISFACTION_THRESHOLD
            term == r >= MAX_ROUNDS
        IN  /\ game_over <=> (bankrupt \/ exodus \/ term)
            /\ bankrupt => game_over_message = BankruptcyMessage
            /\ (~bankrupt /\ exodus) => game_over_message = ExodusMessage(satisfaction)
            /\ (~bankrupt /\ ~exodus /\ term) => game_over_message = EndOfTermMessage
            /\ ~game_over => game_over_message = NoMessage

\* bankruptcy in the last month: two conditions hold, the first one wins
C3_Witness ==
    /\ RoundResolved
    /\ cash <= BANKRUPTCY_THRESHOLD
    /\ LastEntry.Round >= MAX_ROUNDS
    /\ game_over_message = BankruptcyMessage

\* C4: a game in which no round leaves cash <= 0 or satisfaction <= 30 is
\* not over after rounds 1..11 and is over, with reason end of term, after
\* round 12; the ledger then holds exactly 12 entries, and round_number
\* never exceeds 12.
NoEarlyEnd ==
    \A k \in 1..Len(history) :
        /\ history[k].Cash > BANKRUPTCY_THRESHOLD
        /\ history[k].Satisfaction > LOW_SATISFACTION_THRESHOLD

C4_EndOfTerm ==
    /\ round \in 1..MAX_ROUNDS
    /\ Len(history) <= MAX_ROUNDS
    /\ NoEarlyEnd =>
          /\ game_over <=> Len(history) = MAX_ROUNDS
          /\ game_over => game_over_message = EndOfTermMessage
    /\ game_over_message = EndOfTermMessage =>
          /\ Len(history) = MAX_ROUNDS
          /\ LastEntry.Round = MAX_ROUNDS
          /\ NoEarlyEnd

\* twelve months played, none of them ruinous
C4_Witness ==
    /\ NoEarlyEnd
    /\ Len(history) = MAX_ROUNDS
    /\ game_over
    /\ game_over_message = EndOfTermMessage

\* C5: once game_over is true, advancing a round is rejected: until reset
\* is called no round is resolved, no ledger entry is appended, and cash,
\* inventory, satisfaction, cumulative costs, round_number and the
\* termination reason keep the values they had when the game ended.
C5_OverIsFrozen ==
    [][(game_over /\ request'.op # "reset") =>
          /\ UNCHANGED gameState
          /\ UNCHANGED played
          /\ request'.op = "no_form"]_vars

\* a decision was tried on a finished game
C5_Witness ==
    /\ game_over
    /\ Len(history) >= 1
    /\ request.op = "no_form"

\* C6: a decision whose order quantity is negative or exceeds the maximum
\* (1000) is rejected before any mutation: every GameState field and the
\* ledger are identical before and after the rejected call.
C6_BadQuantityRejected ==
    [][(request'.op \in {"submit", "refused"} /\
        (request'.quantity < 0 \/ request'.quantity > 1000)) =>
          /\ UNCHANGED gameState
          /\ UNCHANGED played
          /\ request'.op = "refused"]_vars

\* an out-of-range quantity was tried in the middle of a running game
C6_Witness ==
    /\ ~game_over
    /\ Len(history) >= 1
    /\ request.op = "refused"
    /\ request.quantity > 1000

\* C7: a round with order_quantity = 0 is fully zero on the supply side for
\* every supplier, transporter and outcome of the draws: procured = 0,
\* received = 0, sourcing cost = 0 and transport cost = 0, so the round's
\* total cost is the holding cost plus the stockout cost.
C7_ZeroOrderZeroSupply ==
    (RoundResolved /\ LastInput.quantity = 0) =>
        /\ LastEntry.Procured = 0
        /\ LastEntry.Received = 0
        /\ LastEntry.SourcingCost = 0
        /\ LastEntry.TransportCost = 0
        /\ LastEntry.RoundTotalCost = LastEntry.HoldingCost + LastEntry.StockoutCost

\* C8: from inventory 100 with order 150, supplier unit cost 20,
\* transporter unit cost 5, yield 1.0, no disruption, no damage and demand
\* 150: procured = received = 150, available = 250, sold = 150, unmet = 0,
\* ending inventory = 100, revenue = 7500, sourcing cost = 3000, transport
\* cost = 750, holding cost = 200, stockout cost = 0, round total cost =
\* 3950, cash + 3550, satisfaction + 5 capped at 100.
C8_Example(i) ==
    /\ i.quantity = 150
    /\ get_supplier_details(i.supplier).cost = 20
    /\ get_transport_details(i.transport).cost = 5
    /\ get_supplier_details(i.supplier).yield_percentages[i.yield] = 100
    /\ ~i.disruption
    /\ ~i.damage
    /\ i.demand = 150

C8_WorkedRound ==
    [][(RoundStep /\ inventory = 100 /\ C8_Example(played'[Len(played')])) =>
        LET e == history'[Len(history')]
        IN  /\ e.Procured = 150
            /\ e.Received = 150
            /\ inventory + e.Received = 250
            /\ e.Sold = 150
            /\ e.StockoutUnits = 0
            /\ e.Inventory = 100
            /\ inventory' = 100
            /\ e.Revenue = 7500
            /\ e.SourcingCost = 3000
            /\ e.TransportCost = 750
            /\ e.HoldingCost = 200
            /\ e.StockoutCost = 0
            /\ e.RoundTotalCost = 3950
            /\ cash' = cash + 3550
            /\ satisfaction' = Min(100, satisfaction + 5)
            /\ e.Satisfaction = satisfaction']_vars

\* the worked round played with satisfaction already at the cap
C8_Witness ==
    /\ RoundResolved
    /\ Len(history) >= 2
    /\ C8_Example(LastInput)
    /\ history[Len(history) - 1].Inventory = 100
    /\ history[Len(history) - 1].Satisfaction = 100
    /\ LastEntry.RoundTotalCost = 3950
    /\ satisfaction = 100

\* C9: the events of a round are a function of its ledger entry alone: two
\* resolved rounds with equal ledger entries have the same event kinds and
\* event quantities, whatever supplier, transporter and draws produced them.
EventData(events) ==
    { [f \in (DOMAIN events[k]) \ {"name"} |-> events[k][f]] :
        k \in 1..Len(events) }

C9_EventsFromLedger ==
    [][RoundStep =>
        \A j \in ValidRoundInputs :
            LET o == RoundOutcome(SessionState, j)
            IN  o.entry = history'[Len(history')] =>
                    EventData(o.round_events) = EventData(round_events')]_vars

\* C10: round resolution is deterministic given its draws: a session that
\* was reset and fed a sequence of decisions and draw outcomes is in the
\* state, ledger included, that a fresh session fed the same sequence
\* reaches, and has ended (or not) at the same round with the same reason.
RECURSIVE Replay(_)
Replay(log) ==
    IF log = <<>> THEN InitialSession
    ELSE LET before == Replay(SubSeq(log, 1, Len(log) - 1))
             o == RoundOutcome(before, log[Len(log)])
         IN  [round |-> o.round,
              cash |-> o.cash,
              inventory |-> o.inventory,
              satisfaction |-> o.satisfaction,
              total_costs_accumulated |-> o.total_costs_accumulated,
              game_over |-> o.game_over,
              game_over_message |-> o.game_over_message,
              history |-> Append(before.history, o.entry),
              round_events |-> o.round_events]

C11_LedgerAppendOnly ==
    [][/\ request'.op = "submit" =>
            /\ Len(history') = Len(history) + 1
            /\ SubSeq(history', 1, Len(history)) = history
            /\ (~game_over' => round' = round + 1)
            /\ (game_over' => round' = round)
            /\ history'[Len(history')].Round = Len(history')
            /\ history'[Len(history')].Cash = cash'
            /\ history'[Len(history')].Inventory = inventory'
            /\ history'[Len(history')].Satisfaction = satisfaction'
       /\ request'.op \in {"refused", "no_form"} =>
            /\ history' = history
            /\ round' = round
       /\ \A k \in 1..Len(history') : history'[k].Round = k]_vars

\* a round that ended the game in its fourth month or later and left the
\* counter on that month
C11_Witness ==
    /\ RoundResolved
    /\ request.op = "submit"
    /\ game_over
    /\ Len(history) >= 4
    /\ round = Len(history)
    /\ LastEntry.Round = round

\* C12: for every resolved round, round_total_cost = sourcing_cost +
\* transport_cost (disruption fee included) + stockout_cost + holding_cost;
\* cash changes by exactly revenue - round_total_cost with revenue = sold *
\* 50; cumulative costs grow by exactly round_total_cost; cash may go
\* negative while cumulative costs stay non-negative and never decrease.
C12_CostAccounting ==
    [][RoundStep =>
        LET e == history'[Len(history')]
        IN  /\ e.RoundTotalCost =
                  e.SourcingCost + e.TransportCost + e.StockoutCost + e.HoldingCost
            /\ e.Revenue = e.Sold * 50
            /\ cash' = cash + e.Revenue - e.RoundTotalCost
            /\ total_costs_accumulated' = total_costs_accumulated + e.RoundTotalCost
            /\ total_costs_accumulated >= 0
            /\ total_costs_accumulated' >= total_costs_accumulated]_vars

\* a round with a disruption fee that drove cash below zero
C12_Witness ==
    /\ RoundResolved
    /\ cash < 0
    /\ LastInput.disruption
    /\ LastEntry.TransportCost =
          LastEntry.Procured * get_transport_details(LastInput.transport).cost
          + get_transport_details(LastInput.transport).disruption_fee
    /\ total_costs_accumulated > INITIAL_CASH

\* C13: reset, called from any reachable state (in progress or over), puts
\* the session in exactly the configured initial state: round_number = 1,
\* cash = 50000, inventory = 100, satisfaction = 80, cumulative costs = 0,
\* is_over = false, empty termination reason, empty ledger and empty event
\* list; the game played after it starts from that state alone.
C13_ResetIsInitial ==
    [][request'.op \in {"reset", "new_session"} =>
        /\ round' = 1
        /\ cash' = 50000
        /\ inventory' = 100
        /\ satisfaction' = 80
        /\ total_costs_accumulated' = 0
        /\ game_over' = FALSE
        /\ game_over_message' = <<>>
        /\ history' = <<>>
        /\ round_events' = <<>>
        /\ played' = <<>>
        /\ final_score' = <<>>]_vars

\* a session initialized again, by Play Again or by a reload
C13_Witness ==
    /\ request.op \in {"reset", "new_session"}
    /\ round = 1
    /\ history = <<>>
    /\ ~game_over

\* C14: the final score is produced only when the game is over and equals
\* cash + satisfaction * 100 - cumulative_costs / 10 on the final GameState;
\* it is derived, not stored, and computing it changes no GameState field
\* and no ledger entry.
C14_FinalScore ==
    /\ [](game_over => final_score =
              <<10 * cash + 1000 * satisfaction - total_costs_accumulated>>)
    /\ [](~game_over => final_score = <<>>)
    /\ [][(game_over /\ game_over' /\ final_score' # <<>>) =>
              UNCHANGED gameState]_vars

\* a finished game whose costs are no multiple of 10: the score has a
\* fractional part
C14_Witness ==
    /\ game_over
    /\ final_score # <<>>
    /\ total_costs_accumulated % 10 # 0
    /\ final_score[1] % 10 # 0

\* C15: unmet demand is penalised on both axes in the same round and full
\* fulfilment on neither: if unmet > 0 then stockout_cost = unmet * 30 and
\* satisfaction becomes max(0, old - 2 * unmet), with no bonus; if unmet = 0
\* then stockout_cost = 0 and satisfaction becomes min(100, old + 5).
C15_StockoutPenalty ==
    [][RoundStep =>
        LET e == history'[Len(history')]
            unmet == e.StockoutUnits
        IN  /\ unmet > 0 =>
                  /\ e.StockoutCost = unmet * 30
                  /\ satisfaction' = Max(0, satisfaction - 2 * unmet)
            /\ unmet = 0 =>
                  /\ e.StockoutCost = 0
                  /\ satisfaction' = Min(100, satisfaction + 5)]_vars

\* a first round with a stockout small enough for the penalty to show in
\* full: satisfaction 80 - 2 * unmet, above 0
C15_Witness ==
    /\ RoundResolved
    /\ Len(history) = 1
    /\ LastEntry.StockoutUnits > 0
    /\ LastEntry.StockoutCost = LastEntry.StockoutUnits * 30
    /\ satisfaction = INITIAL_SATISFACTION - 2 * LastEntry.StockoutUnits
    /\ satisfaction > 0

\* C16: the supply pipeline only loses units, and costs follow procured
\* units: procured = floor(order_quantity * yield_fraction) with 0 <=
\* procured <= order_quantity; damage applies only when the damage draw is
\* true and procured > 0, giving received = procured - floor(procured *
\* damage_fraction), otherwise received = procured, so 0 <= received <=
\* procured; sourcing cost = procured * supplier unit cost and base
\* transport cost = procured * transporter unit cost; a disruption adds the
\* flat fee once and changes neither procured nor received.
C16_SupplyPipeline ==
    [][RoundStep =>
        LET i == played'[Len(played')]
            e == history'[Len(history')]
            supplier == get_supplier_details(i.supplier)
            transporter == get_transport_details(i.transport)
            pct == supplier.yield_percentages[i.yield]
        IN  /\ e.Procured = (i.quantity * pct) \div 100
            /\ 0 <= e.Procured
            /\ e.Procured <= i.quantity
            /\ e.Received =
                  IF i.damage /\ e.Procured > 0
                  THEN e.Procured - ((e.Procured * transporter.damage_percentage) \div 100)
                  ELSE e.Procured
            /\ 0 <= e.Received
            /\ e.Received <= e.Procured
            /\ e.SourcingCost = e.Procured * supplier.cost
            /\ e.TransportCost =
                  e.Procured * transporter.cost
                  + (IF i.disruption THEN transporter.disruption_fee ELSE 0)]_vars

\* C17: while the game is not over, cash > 0, satisfaction > 30, 1 <=
\* round_number <= 12 and the ledger holds round_number - 1 entries; once
\* it is over, the ledger holds round_number entries and the termination
\* reason is non-empty.
C17_StateShape ==
    /\ ~game_over =>
          /\ cash > 0
          /\ satisfaction > 30
          /\ round \in 1..12
          /\ Len(history) = round - 1
          /\ game_over_message = <<>>
    /\ game_over =>
          /\ Len(history) = round
          /\ game_over_message # <<>>

\* a game the customers left before the last month
C17_Witness ==
    /\ game_over
    /\ round < MAX_ROUNDS
    /\ round >= 2
    /\ Len(history) = round
    /\ game_over_message = ExodusMessage(satisfaction)

\* C18: since the last reset the books balance: cash + cumulative costs =
\* 50000 + 50 * (sum of Sold over the ledger), and cumulative costs = sum
\* of Round Total Cost over the ledger.
RECURSIVE SumSold(_)
SumSold(h) ==
    IF h = <<>> THEN 0 ELSE SumSold(SubSeq(h, 1, Len(h) - 1)) + h[Len(h)].Sold

RECURSIVE SumRoundTotalCost(_)
SumRoundTotalCost(h) ==
    IF h = <<>> THEN 0
    ELSE SumRoundTotalCost(SubSeq(h, 1, Len(h) - 1)) + h[Len(h)].RoundTotalCost

C18_BooksBalance ==
    /\ cash + total_costs_accumulated = 50000 + 50 * SumSold(history)
    /\ total_costs_accumulated = SumRoundTotalCost(history)

\* the books of a second or later month, in a game that went into debt
C18_Witness ==
    /\ Len(history) >= 3
    /\ SumSold(history) > LastEntry.Sold
    /\ LastEntry.Sold > 0
    /\ cash < 0

\* C19: every game ends: while the player keeps submitting decisions,
\* game_over eventually becomes true, after at most 12 resolved rounds
\* since the last reset, whatever the decisions and the draws; before the
\* twelfth round it ends only by bankruptcy or customer exodus.
C19_EveryGameEnds ==
    /\ (~game_over) ~> game_over
    /\ [](Len(played) <= MAX_ROUNDS)
    /\ []((game_over /\ Len(played) < MAX_ROUNDS) =>
              \/ game_over_message = BankruptcyMessage
              \/ game_over_message = ExodusMessage(satisfaction))

\* a game that ran its whole term, ended by its twelfth round
C19_Witness ==
    /\ game_over
    /\ Len(played) = MAX_ROUNDS
    /\ request.op = "submit"
    /\ game_over_message = EndOfTermMessage

====
